---- MODULE Spec2Model ----
(***************************************************************************)
(* Model of bokeh/util/hex.py: hexbin, cartesian_to_axial and _round_hex.  *)
(*                                                                         *)
(* The module is stateless; the state of the model is one call at a time:  *)
(* the arguments of the call, the values of the function's locals, and     *)
(* what the call returned or raised.                                       *)
(*                                                                         *)
(* Floating point values are modelled as pairs <<n, d>>:                   *)
(*   d > 0            the finite value n/d (kept in lowest terms),         *)
(*   <<1, 0>>         +inf,   <<-1, 0>>  -inf,   <<0, 0>>  nan.            *)
(* Arithmetic on finite values is exact rational arithmetic, which is what *)
(* float64 computes on the dyadic grid given to _round_hex.  The basis     *)
(* constants are the source's float constants at a shorter precision,      *)
(* rounded the way float64 rounds them: 1.0/3.0 lies just below 1/3 and    *)
(* 2.0/3.0 is exactly twice 1.0/3.0, so that a point on a corner of three  *)
(* hexagons falls into the same tile as it does in float64.                *)
(***************************************************************************)
EXTENDS Integers, Sequences, FiniteSets

\* ------------------------------------------------------------------ bounds
\* longest x or y array given to cartesian_to_axial / hexbin
MaxLen == 2
\* _round_hex is called directly on q, r in -MaxCoord .. MaxCoord ...
MaxCoord == 2
\* ... in steps of 1 / 2^FracBits
FracBits == 2

Den == 2 ^ FracBits

\* ------------------------------------------------- floating point values
Sgn(n) == IF n > 0 THEN 1 ELSE IF n < 0 THEN -1 ELSE 0

Abs(n) == IF n < 0 THEN -n ELSE n

RECURSIVE GCD(_, _)
GCD(a, b) == IF b = 0 THEN a ELSE GCD(b, a % b)

\* the finite value n/d, d # 0, in lowest terms with a positive denominator
Rat(n, d) ==
    LET g == GCD(Abs(n), Abs(d))
    IN  <<Sgn(d) * (n \div g), Abs(d) \div g>>

NaN == <<0, 0>>

IsFinite(a) == a[2] # 0

IsNaN(a) == a[1] = 0 /\ a[2] = 0

\* unary minus
RNeg(a) == <<-a[1], a[2]>>

\* a + b (inf + -inf = nan)
RAdd(a, b) ==
    IF IsFinite(a) /\ IsFinite(b)
    THEN Rat(a[1] * b[2] + b[1] * a[2], a[2] * b[2])
    ELSE IF IsNaN(a) \/ IsNaN(b) THEN NaN
    ELSE IF ~IsFinite(a) /\ ~IsFinite(b)
         THEN (IF a[1] = b[1] THEN a ELSE NaN)
    ELSE IF IsFinite(a) THEN b ELSE a

\* a - b
RSub(a, b) == RAdd(a, RNeg(b))

\* a * b (0 * inf = nan)
RMul(a, b) ==
    IF IsFinite(a) /\ IsFinite(b)
    THEN Rat(a[1] * b[1], a[2] * b[2])
    ELSE IF IsNaN(a) \/ IsNaN(b) THEN NaN
    ELSE <<Sgn(a[1]) * Sgn(b[1]), 0>>

\* a / b for a finite divisor b (x / 0 = +-inf, 0 / 0 = nan; numpy warns
\* and does not raise)
RDiv(a, b) ==
    IF b[1] = 0 THEN <<Sgn(a[1]), 0>>
    ELSE RMul(a, Rat(b[2], b[1]))

\* np.abs
np_abs(a) == <<Abs(a[1]), a[2]>>

\* a > b (False when either side is nan)
RGt(a, b) ==
    IF IsNaN(a) \/ IsNaN(b) THEN FALSE
    ELSE IF IsFinite(a) /\ IsFinite(b) THEN a[1] * b[2] > b[1] * a[2]
    ELSE IF ~IsFinite(a) THEN a[1] = 1 /\ b # a
    ELSE b[1] = -1

\* np_round with np.floor in the place of np.round
np_round_floor(a) ==
    IF ~IsFinite(a) THEN a ELSE <<a[1] \div a[2], 1>>

\* np.round: nearest integer, halves to the even neighbour
np_round(a) ==
    IF ~IsFinite(a) THEN a
    ELSE LET fl  == a[1] \div a[2]
             rem == a[1] - fl * a[2]
         IN  IF 2 * rem < a[2] THEN <<fl, 1>>
             ELSE IF 2 * rem > a[2] THEN <<fl + 1, 1>>
             ELSE IF fl % 2 = 0 THEN <<fl, 1>>
             ELSE <<fl + 1, 1>>

\* Converting inf or nan to an integer is undefined in C; what comes out is
\* a property of the build.  x86-64 gives the "integer indefinite" value
\* for all three, aarch64 saturates and maps nan to 0.  INT_MIN and INT_MAX
\* stand for the extreme values of the integer type.
INT_MAX == 2 ^ 30

INT_MIN == -INT_MAX

PlatformCasts ==
    { [k \in {-1, 0, 1} |-> INT_MIN],
      [k \in {-1, 0, 1} |-> IF k = 0 THEN 0 ELSE k * INT_MAX] }

\* the conversion of a build, for arrays without inf and nan
AnyCast == CHOOSE c \in PlatformCasts : TRUE

\* ndarray.astype(int) of one element
astype_int(a, cast) ==
    IF IsFinite(a) THEN Sgn(a[1]) * (Abs(a[1]) \div a[2])
    ELSE cast[a[1]]

\* --------------------------------------------------------------- _round_hex
\* cond = (dx > dy) & (dx > dz)
cond_of(dx, dy, dz) == RGt(dx, dy) /\ RGt(dx, dz)

\* q = np.where(cond, -(ry + rz), rx)
where_q(rx, ry, rz, dx, dy, dz) ==
    IF cond_of(dx, dy, dz) THEN RNeg(RAdd(ry, rz)) ELSE rx

\* where_r recomputing z from x and z
where_r_rx_rz(rx, ry, rz, dx, dy, dz) ==
    IF ~cond_of(dx, dy, dz) /\ ~RGt(dy, dz) THEN RNeg(RAdd(rx, rz)) ELSE rz

\* where_r with dy >= dz in the place of dy > dz
where_r_ge(rx, ry, rz, dx, dy, dz) ==
    IF ~cond_of(dx, dy, dz) /\ RGt(dz, dy) THEN RNeg(RAdd(rx, ry)) ELSE rz

\* where_r without the ~cond conjunct
where_r_no_cond(rx, ry, rz, dx, dy, dz) ==
    IF ~RGt(dy, dz) THEN RNeg(RAdd(rx, ry)) ELSE rz

\* r = np.where(~cond & ~(dy > dz), -(rx + ry), rz)
where_r(rx, ry, rz, dx, dy, dz) ==
    IF ~cond_of(dx, dy, dz) /\ ~RGt(dy, dz) THEN RNeg(RAdd(rx, ry)) ELSE rz

\* one element of _round_hex: the tile <<q, r>> of the axial point (q, r)
round_hex_elem(q, r, cast) ==
    LET x  == q
        z  == r
        y  == RSub(RNeg(x), z)
        rx == np_round(x)
        ry == np_round(y)
        rz == np_round(z)
        dx == np_abs(RSub(rx, x))
        dy == np_abs(RSub(ry, y))
        dz == np_abs(RSub(rz, z))
    IN  <<astype_int(where_q(rx, ry, rz, dx, dy, dz), cast),
          astype_int(where_r(rx, ry, rz, dx, dy, dz), cast)>>

\* _round_hex on arrays of the same length, element by element
_round_hex(q, r, cast) ==
    [i \in 1..Len(q) |-> round_hex_elem(q[i], r[i], cast)]

\* ------------------------------------------------------- cartesian_to_axial
\* 1.0/3.0, 2.0/3.0 and np.sqrt(3.0)/3.0 with ten fractional bits
ONE_THIRD == Rat(341, 1024)

TWO_THIRDS == Rat(682, 1024)

SQRT3_3 == Rat(591, 1024)

_HEX_FLAT == <<TWO_THIRDS, Rat(0, 1), RNeg(ONE_THIRD), SQRT3_3>>

_HEX_POINTY == <<SQRT3_3, RNeg(ONE_THIRD), Rat(0, 1), TWO_THIRDS>>

\* the basis selected by the orientation
coords_of(orientation) ==
    IF orientation = "flattop" THEN _HEX_FLAT ELSE _HEX_POINTY

\* x = x / size * (aspect_scale if orientation == "pointytop" else 1)
scale_x(xi, size, orientation, aspect_scale) ==
    RMul(RDiv(xi, size),
         IF orientation = "pointytop" THEN aspect_scale ELSE Rat(1, 1))

\* scale_y dividing by aspect_scale for the other orientation
scale_y_pointy(yi, size, orientation, aspect_scale) ==
    RDiv(RDiv(RNeg(yi), size),
         IF orientation = "pointytop" THEN aspect_scale ELSE Rat(1, 1))

\* y = -y / size / (aspect_scale if orientation == "flattop" else 1)
scale_y(yi, size, orientation, aspect_scale) ==
    RDiv(RDiv(RNeg(yi), size),
         IF orientation = "flattop" THEN aspect_scale ELSE Rat(1, 1))

\* numpy broadcasting of two one-dimensional arrays of lengths n and m
Broadcastable(n, m) == n = m \/ n = 1 \/ m = 1

BroadcastLen(n, m) == IF n = 1 THEN m ELSE n

BroadcastAt(a, i) == IF Len(a) = 1 THEN a[1] ELSE a[i]

\* c0 * x + c1 * y, element by element over the broadcast arrays
lincomb(c0, c1, x, y) ==
    [i \in 1..BroadcastLen(Len(x), Len(y)) |->
        RAdd(RMul(c0, BroadcastAt(x, i)), RMul(c1, BroadcastAt(y, i)))]

\* the local x of cartesian_to_axial after line 140
c2a_x(x, size, orientation, aspect_scale) ==
    [i \in 1..Len(x) |-> scale_x(x[i], size, orientation, aspect_scale)]

\* the local y of cartesian_to_axial after line 141
c2a_y(y, size, orientation, aspect_scale) ==
    [i \in 1..Len(y) |-> scale_y(y[i], size, orientation, aspect_scale)]

\* ------------------------------------------------------------------- hexbin
\* (q1, r1) sorts before (q2, r2) in the group keys
KeyLess(q1, r1, q2, r2) == q1 < q2 \/ (q1 = q2 /\ r1 < r2)

\* AddRow that leaves the size of an existing group as it is
AddRow_no_increment(table, t) ==
    IF \E j \in 1..Len(table) : table[j].q = t[1] /\ table[j].r = t[2]
    THEN table
    ELSE LET k == Cardinality({j \in 1..Len(table) :
                        (table[j].q < t[1]
                            \/ (table[j].q = t[1] /\ table[j].r < t[2]))})
         IN  [j \in 1..(Len(table) + 1) |->
                IF j <= k THEN table[j]
                ELSE IF j = k + 1 THEN [q |-> t[1], r |-> t[2], counts |-> 1]
                ELSE table[j - 1]]

\* one more row with key t for the sorted table of group sizes
AddRow(table, t) ==
    IF \E j \in 1..Len(table) : table[j].q = t[1] /\ table[j].r = t[2]
    THEN [j \in 1..Len(table) |->
            IF table[j].q = t[1] /\ table[j].r = t[2]
            THEN [table[j] EXCEPT !.counts = @ + 1]
            ELSE table[j]]
    ELSE LET k == Cardinality({j \in 1..Len(table) :
                        KeyLess(table[j].q, table[j].r, t[1], t[2])})
         IN  [j \in 1..(Len(table) + 1) |->
                IF j <= k THEN table[j]
                ELSE IF j = k + 1 THEN [q |-> t[1], r |-> t[2], counts |-> 1]
                ELSE table[j - 1]]

RECURSIVE groupby_size(_, _)

\* groupby_size that loses the first row
groupby_size_skip_first(tiles, n) ==
    IF n <= 1 THEN <<>> ELSE AddRow(groupby_size(tiles, n - 1), tiles[n])

\* df.groupby(['q', 'r']).size().reset_index(name='counts') for the rows
\* tiles[1..n]: one row per key, sorted by key, with the size of its group
groupby_size(tiles, n) ==
    IF n = 0 THEN <<>> ELSE AddRow(groupby_size(tiles, n - 1), tiles[n])

\* -------------------------------------------------------------------- state
VARIABLES
    pc,             \* "idle", "returned" or "raised"
    fn,             \* the function called
    x, y,           \* the arrays x and y of the call
    size, orientation, aspect_scale,
    nx, ny,         \* cartesian_to_axial: its locals x and y after line 141
    q, r,           \* the float arrays given to _round_hex
    tiles,          \* what _round_hex returned, as pairs <<q[i], r[i]>>
    ret,            \* the tiles cartesian_to_axial or _round_hex returned
    df,             \* the rows of the DataFrame hexbin returned
    exc             \* the exception the call raised

vars == <<pc, fn, x, y, size, orientation, aspect_scale, nx, ny, q, r, tiles,
          ret, df, exc>>

\* ------------------------------------------------------------------- inputs
RECURSIVE SeqsUpTo(_, _)
SeqsUpTo(S, n) ==
    IF n = 0 THEN {<<>>}
    ELSE LET shorter == SeqsUpTo(S, n - 1)
         IN  shorter \cup {Append(s, e) : s \in shorter, e \in S}

XYValues == {Rat(-1, 1), Rat(0, 1), Rat(1, 1)}

Arrays == SeqsUpTo(XYValues, MaxLen)

Sizes == {Rat(-1, 1), Rat(0, 1), Rat(1, 1), Rat(2, 1)}

Orientations == {"pointytop", "flattop", "other"}

AspectScales == {Rat(1, 1), Rat(2, 1)}

Grid == {Rat(k, Den) : k \in (-MaxCoord * Den)..(MaxCoord * Den)}

Init ==
    /\ pc = "idle"
    /\ fn = "none"
    /\ x = <<>> /\ y = <<>>
    /\ size = Rat(1, 1) /\ orientation = "pointytop"
    /\ aspect_scale = Rat(1, 1)
    /\ nx = <<>> /\ ny = <<>>
    /\ q = <<>> /\ r = <<>>
    /\ tiles = <<>>
    /\ ret = <<>>
    /\ df = <<>>
    /\ exc = "none"

\* ------------------------------------------------------------------ actions
\* one run of the body of cartesian_to_axial: its locals, the tiles it
\* returns, and whether line 142 raised
c2a_run(xs, ys, sz, ori, asp, cast) ==
    LET coords == coords_of(ori)
        x1 == c2a_x(xs, sz, ori, asp)
        y1 == c2a_y(ys, sz, ori, asp)
        q1 == lincomb(coords[1], coords[2], x1, y1)
        r1 == lincomb(coords[3], coords[4], x1, y1)
    IN  IF ~Broadcastable(Len(x1), Len(y1))
        THEN \* ValueError: operands could not be broadcast together
             [raised |-> TRUE, nx |-> x1, ny |-> y1,
              q |-> <<>>, r |-> <<>>, tiles |-> <<>>]
        ELSE [raised |-> FALSE, nx |-> x1, ny |-> y1,
              q |-> q1, r |-> r1, tiles |-> _round_hex(q1, r1, cast)]

\* the conversions of inf and nan a call can meet: with a size other than 0
\* every value is finite and all builds convert alike
CastsFor(sz) == IF sz[1] = 0 THEN PlatformCasts ELSE {AnyCast}

\* cartesian_to_axial(x, y, size, orientation, aspect_scale)
cartesian_to_axial ==
    /\ pc = "idle"
    /\ \E xs \in Arrays, ys \in Arrays, sz \in Sizes,
          ori \in Orientations, asp \in AspectScales :
        \E run \in {c2a_run(xs, ys, sz, ori, asp, cast) :
                        cast \in CastsFor(sz)} :
            /\ fn' = "cartesian_to_axial"
            /\ x' = xs /\ y' = ys
            /\ size' = sz /\ orientation' = ori /\ aspect_scale' = asp
            /\ nx' = run.nx /\ ny' = run.ny
            /\ q' = run.q /\ r' = run.r
            /\ tiles' = run.tiles
            /\ pc' = IF run.raised THEN "raised" ELSE "returned"
            /\ exc' = IF run.raised THEN "ValueError" ELSE "none"
            /\ ret' = run.tiles
            /\ df' = <<>>

\* hexbin(x, y, size, orientation, aspect_scale), with pandas installed:
\* an exception of cartesian_to_axial passes through, its tiles are grouped
hexbin ==
    /\ pc = "idle"
    /\ \E xs \in Arrays, ys \in Arrays, sz \in Sizes,
          ori \in Orientations, asp \in AspectScales :
        \E run \in {c2a_run(xs, ys, sz, ori, asp, cast) :
                        cast \in CastsFor(sz)} :
            /\ fn' = "hexbin"
            /\ x' = xs /\ y' = ys
            /\ size' = sz /\ orientation' = ori /\ aspect_scale' = asp
            /\ nx' = run.nx /\ ny' = run.ny
            /\ q' = run.q /\ r' = run.r
            /\ tiles' = run.tiles
            /\ pc' = IF run.raised THEN "raised" ELSE "returned"
            /\ exc' = IF run.raised THEN "ValueError" ELSE "none"
            /\ ret' = <<>>
            /\ df' = IF run.raised THEN <<>>
                     ELSE groupby_size(run.tiles, Len(run.tiles))

\* _round_hex(q, r) called directly on arrays of one element
RoundHex ==
    /\ pc = "idle"
    /\ \E a \in Grid, b \in Grid :
        /\ fn' = "_round_hex"
        /\ q' = <<a>> /\ r' = <<b>>
        /\ tiles' = _round_hex(<<a>>, <<b>>, AnyCast)
        /\ ret' = _round_hex(<<a>>, <<b>>, AnyCast)
        /\ df' = <<>>
        /\ pc' = "returned"
        /\ exc' = "none"
        /\ UNCHANGED <<x, y, size, orientation, aspect_scale, nx, ny>>

\* the caller takes the result; the next call starts from a clean slate
Finish ==
    /\ pc # "idle"
    /\ pc' = "idle"
    /\ fn' = "none"
    /\ x' = <<>> /\ y' = <<>>
    /\ size' = Rat(1, 1) /\ orientation' = "pointytop"
    /\ aspect_scale' = Rat(1, 1)
    /\ nx' = <<>> /\ ny' = <<>>
    /\ q' = <<>> /\ r' = <<>>
    /\ tiles' = <<>>
    /\ ret' = <<>>
    /\ df' = <<>>
    /\ exc' = "none"

Next == cartesian_to_axial \/ hexbin \/ RoundHex \/ Finish

Spec == Init /\ [][Next]_vars

\* ======================================================== properties
\* the state right after a direct call of _round_hex
RoundHexReturned == pc = "returned" /\ fn = "_round_hex"

\* element i of the arrays given to _round_hex is finite
FiniteAt(i) == IsFinite(q[i]) /\ IsFinite(r[i])

\* the cube coordinate y = -x-z of element i, the three independent
\* roundings (as integers) and their errors
CubeY(i) == RSub(RNeg(q[i]), r[i])

Rx(i) == np_round(q[i])[1]

Ry(i) == np_round(CubeY(i))[1]

Rz(i) == np_round(r[i])[1]

Dx(i) == np_abs(RSub(<<Rx(i), 1>>, q[i]))

Dy(i) == np_abs(RSub(<<Ry(i), 1>>, CubeY(i)))

Dz(i) == np_abs(RSub(<<Rz(i), 1>>, r[i]))

\* squared distance in the hex plane from the axial point (a, b) to the
\* centre of tile t: dq*dq + dq*dr + dr*dr
Dist2(a, b, t) ==
    LET dq == RSub(a, <<t[1], 1>>)
        dr == RSub(b, <<t[2], 1>>)
    IN  RAdd(RAdd(RMul(dq, dq), RMul(dq, dr)), RMul(dr, dr))

\* the tiles around the grid
NearTiles ==
    (-(MaxCoord + 1)..(MaxCoord + 1)) \X (-(MaxCoord + 1)..(MaxCoord + 1))

\* C1: the tile _round_hex returns for a grid point (q, r) is a nearest
\* hexagon centre: no tile is strictly closer to (q, r) in the hex plane.
C1_NearestTile ==
    RoundHexReturned =>
        \A t \in NearTiles :
            ~RGt(Dist2(q[1], r[1], ret[1]), Dist2(q[1], r[1], t))

\* C1 witness: a grid point off the tile centres whose z coordinate was
\* recomputed (the returned r is not the rounding of r)
C1_Witness ==
    /\ RoundHexReturned
    /\ q[1][2] # 1 /\ r[1][2] # 1
    /\ ret[1][2] # Rz(1)

\* C2: _round_hex returns integer-valued (q, r) unchanged, and applied to
\* its own output it returns that output.
C2_IntegerIdentity ==
    RoundHexReturned =>
        /\ (q[1][2] = 1 /\ r[1][2] = 1) => ret[1] = <<q[1][1], r[1][1]>>
        /\ _round_hex(<<Rat(ret[1][1], 1)>>, <<Rat(ret[1][2], 1)>>, AnyCast)
              = ret

\* C2 witness: integers of both signs went in and came back
C2_Witness ==
    /\ RoundHexReturned
    /\ q[1] = Rat(-2, 1) /\ r[1] = Rat(1, 1)
    /\ ret[1] = <<-2, 1>>

\* the largest rounding error of element i is shared by two or three axes
TieXY(i) == Dx(i) = Dy(i) /\ ~RGt(Dz(i), Dx(i))

TieXZ(i) == Dx(i) = Dz(i) /\ ~RGt(Dy(i), Dx(i))

TieYZ(i) == Dy(i) = Dz(i) /\ ~RGt(Dx(i), Dy(i))

\* C8 as stated: every tie for the largest rounding error is resolved by
\* the z-correction branch, q = rx and r = -(rx + ry).
C8_TiesToZ ==
    pc = "returned" =>
        \A i \in 1..Len(q) :
            (FiniteAt(i) /\ (TieXY(i) \/ TieXZ(i) \/ TieYZ(i)))
                => tiles[i] = <<Rx(i), -(Rx(i) + Ry(i))>>

\* C8 amended: a tie for the largest rounding error that dz takes part in
\* (dx = dz >= dy, dy = dz >= dx, dx = dy = dz) is resolved by the
\* z-correction branch, q = rx and r = -(rx + ry); the tie dx = dy > dz is
\* resolved by the y-correction branch, q = rx and r = rz.
C8_TieBranches ==
    pc = "returned" =>
        \A i \in 1..Len(q) :
            FiniteAt(i) =>
                /\ (TieXZ(i) \/ TieYZ(i))
                      => tiles[i] = <<Rx(i), -(Rx(i) + Ry(i))>>
                /\ (Dx(i) = Dy(i) /\ RGt(Dx(i), Dz(i)))
                      => tiles[i] = <<Rx(i), Rz(i)>>

\* C8 witness: dx = dy > dz, and the y-correction branch gave another tile
\* than the z-correction branch would have
C8_Witness ==
    /\ RoundHexReturned
    /\ Dx(1) = Dy(1) /\ RGt(Dx(1), Dz(1))
    /\ tiles[1] = <<Rx(1), Rz(1)>>
    /\ Rz(1) # -(Rx(1) + Ry(1))

\* C9: _round_hex recomputes exactly one cube axis from the two others:
\* x when dx > dy and dx > dz, else y when dy > dz, else z.
C9_OneAxisRecomputed ==
    pc = "returned" =>
        \A i \in 1..Len(q) :
            FiniteAt(i) =>
                IF RGt(Dx(i), Dy(i)) /\ RGt(Dx(i), Dz(i))
                THEN tiles[i] = <<-(Ry(i) + Rz(i)), Rz(i)>>
                ELSE IF RGt(Dy(i), Dz(i))
                THEN tiles[i] = <<Rx(i), Rz(i)>>
                ELSE tiles[i] = <<Rx(i), -(Rx(i) + Ry(i))>>

\* C9 witness: the independent roundings did not sum to zero, dx was the
\* largest error and x was recomputed
C9_Witness ==
    /\ RoundHexReturned
    /\ Rx(1) + Ry(1) + Rz(1) # 0
    /\ RGt(Dx(1), Dy(1)) /\ RGt(Dx(1), Dz(1))
    /\ tiles[1] = <<-(Ry(1) + Rz(1)), Rz(1)>>
\* the state right after a call of cartesian_to_axial or hexbin
Called == pc # "idle" /\ fn \in {"cartesian_to_axial", "hexbin"}

HexbinReturned == pc = "returned" /\ fn = "hexbin"

\* the tiles the points of the batch were assigned to
TileSet == {tiles[i] : i \in 1..Len(tiles)}

\* the number of points assigned to tile t
PointsIn(t) == Cardinality({i \in 1..Len(tiles) : tiles[i] = t})

\* C3: hexbin returns exactly one record per tile that received a point,
\* with the number of points of that tile as its counts, and no record for
\* any other tile.
C3_OneRecordPerTile ==
    HexbinReturned =>
        /\ \A t \in TileSet :
              Cardinality({j \in 1..Len(df) :
                              df[j].q = t[1] /\ df[j].r = t[2]}) = 1
        /\ \A j \in 1..Len(df) :
              /\ <<df[j].q, df[j].r>> \in TileSet
              /\ df[j].counts = PointsIn(<<df[j].q, df[j].r>>)
              /\ df[j].counts > 0

\* C3 witness: two different points in one tile, one record with counts 2
C3_Witness ==
    /\ HexbinReturned
    /\ size[1] > 0
    /\ Len(x) = 2 /\ Len(y) = 2
    /\ <<x[1], y[1]>> # <<x[2], y[2]>>
    /\ Len(df) = 1 /\ df[1].counts = 2

RECURSIVE SumCounts(_, _)
SumCounts(table, n) ==
    IF n = 0 THEN 0 ELSE SumCounts(table, n - 1) + table[n].counts

\* C4: the counts hexbin returns add up to the number of points, and the
\* empty batch gives no record.
C4_CountsAddUp ==
    HexbinReturned =>
        /\ SumCounts(df, Len(df)) = Len(tiles)
        /\ Len(x) = Len(y) => SumCounts(df, Len(df)) = Len(x)
        /\ (x = <<>> /\ y = <<>>) => df = <<>>

\* C4 witness: two points in two tiles
C4_Witness ==
    /\ HexbinReturned
    /\ size[1] > 0
    /\ Len(x) = 2 /\ Len(y) = 2
    /\ Len(df) = 2
    /\ SumCounts(df, Len(df)) = 2

\* lines 140-143 of cartesian_to_axial have produced values
ArithmeticDone == Len(nx) + Len(ny) + Len(q) + Len(r) > 0

\* C5 as stated, for a batch of at least one point: with size <= 0 the
\* call raises before any coordinate arithmetic and returns nothing.
C5_SizeRejected ==
    (Called /\ size[1] <= 0 /\ Len(x) = Len(y) /\ Len(x) > 0) =>
        /\ pc = "raised"
        /\ ~ArithmeticDone
        /\ ret = <<>> /\ df = <<>>

\* C6 as stated, for a valid size and orientation: with x and y of
\* different lengths, neither empty, the call raises and returns nothing.
C6_LengthMismatchRaises ==
    (Called /\ Len(x) # Len(y) /\ Len(x) > 0 /\ Len(y) > 0
        /\ size[1] > 0 /\ orientation = "pointytop") =>
        /\ pc = "raised"
        /\ ret = <<>> /\ df = <<>>

\* C7 as stated: with an orientation other than "pointytop" and "flattop"
\* cartesian_to_axial returns the tiles of "pointytop" on the same x, y,
\* size and aspect_scale.
C7_OtherIsPointy ==
    (pc = "returned" /\ fn = "cartesian_to_axial"
        /\ orientation \notin {"pointytop", "flattop"} /\ size[1] > 0) =>
        ret = c2a_run(x, y, size, "pointytop", aspect_scale, AnyCast).tiles

\* C10: the aspect-scale correction touches one axis: for "pointytop" x is
\* x / size * aspect_scale and y is -y / size; for "flattop" x is x / size
\* and y is -y / size / aspect_scale; with aspect_scale = 1 neither axis is
\* corrected; q and r are the basis applied to these x and y.
C10_AspectOneAxis ==
    (Called /\ size[1] # 0) =>
        /\ Len(nx) = Len(x) /\ Len(ny) = Len(y)
        /\ orientation = "pointytop" =>
            /\ \A i \in 1..Len(x) :
                  RMul(nx[i], size) = RMul(x[i], aspect_scale)
            /\ \A i \in 1..Len(y) : RMul(ny[i], size) = RNeg(y[i])
        /\ orientation = "flattop" =>
            /\ \A i \in 1..Len(x) : RMul(nx[i], size) = x[i]
            /\ \A i \in 1..Len(y) :
                  RMul(RMul(ny[i], size), aspect_scale) = RNeg(y[i])
        /\ aspect_scale = Rat(1, 1) =>
            /\ \A i \in 1..Len(x) : RMul(nx[i], size) = x[i]
            /\ \A i \in 1..Len(y) : RMul(ny[i], size) = RNeg(y[i])
        /\ (pc = "returned" /\ orientation = "pointytop") =>
            /\ q = lincomb(SQRT3_3, RNeg(ONE_THIRD), nx, ny)
            /\ r = lincomb(Rat(0, 1), TWO_THIRDS, nx, ny)
        /\ (pc = "returned" /\ orientation = "flattop") =>
            /\ q = lincomb(TWO_THIRDS, Rat(0, 1), nx, ny)
            /\ r = lincomb(RNeg(ONE_THIRD), SQRT3_3, nx, ny)

\* C10 witness: a flat-top call with aspect_scale 2 and a point off the
\* x axis
C10_Witness ==
    /\ pc = "returned" /\ fn = "cartesian_to_axial"
    /\ orientation = "flattop"
    /\ aspect_scale = Rat(2, 1) /\ size = Rat(2, 1)
    /\ Len(x) = 1 /\ Len(y) = 1 /\ y[1] = Rat(1, 1)
    /\ ny[1] = Rat(-1, 4)

====
